---- MODULE Spec2Model ----
(***************************************************************************)
(* Tableau simplex engine of apavazza/simplex: SimplexSolver and           *)
(* DualSimplexSolver (construction, pivot loop, step recording, solution   *)
(* extraction).                                                            *)
(*                                                                         *)
(* Conventions of the model                                                *)
(*  - Numbers are exact rationals <<n, d>> in lowest terms with d > 0;     *)
(*    <<0, 0>> is NaN and <<1, 0>>, <<-1, 0>> are +Infinity, -Infinity.    *)
(*    Rounding of IEEE doubles is not modelled.                            *)
(*  - Indices are 1-based: model row/column k is source row/column k - 1.  *)
(*  - A string is modelled by its content modulo inner whitespace: an      *)
(*    expression is a sequence of sign-delimited terms, a constraint is a  *)
(*    left-hand expression, the sequence of relational operators found in  *)
(*    it and the number parsed from the part after the first operator.     *)
(*    The field ws counts the surrounding whitespace that trim() removes.  *)
(*  - Arrays of rows live in a heap of rows addressed by position, so that *)
(*    sharing rows between the live matrix and a recorded step is          *)
(*    expressible.                                                         *)
(***************************************************************************)
EXTENDS Integers, Sequences, FiniteSets, TLC

(***************************************************************************)
(* Numbers                                                                 *)
(***************************************************************************)
RECURSIVE Gcd(_, _)
Gcd(a, b) == IF b = 0 THEN a ELSE Gcd(b, a % b)

AbsInt(n) == IF n < 0 THEN -n ELSE n

SignInt(n) == IF n < 0 THEN -1 ELSE IF n > 0 THEN 1 ELSE 0

Norm(n, d) ==
    IF d = 0 THEN <<SignInt(n), 0>>
    ELSE LET g == Gcd(AbsInt(n), AbsInt(d))
             s == IF d < 0 THEN -1 ELSE 1
         IN <<(s * n) \div g, (s * d) \div g>>

NaN == <<0, 0>>
PosInf == <<1, 0>>
Zero == <<0, 1>>
One == <<1, 1>>
Int2Num(k) == <<k, 1>>

IsNaN(a) == a = NaN
IsFinite(a) == a[2] # 0

Neg(a) == <<-a[1], a[2]>>
Add(a, b) ==
    IF IsFinite(a) /\ IsFinite(b) THEN Norm(a[1] * b[2] + b[1] * a[2], a[2] * b[2])
    ELSE IF IsNaN(a) \/ IsNaN(b) THEN NaN
    ELSE IF ~IsFinite(a) /\ ~IsFinite(b) THEN (IF a = b THEN a ELSE NaN)
    ELSE IF IsFinite(a) THEN b ELSE a
Sub(a, b) == Add(a, Neg(b))
Mul(a, b) == Norm(a[1] * b[1], a[2] * b[2])
Div(a, b) ==
    IF IsFinite(b) /\ b[1] # 0 THEN Norm(a[1] * b[2], a[2] * b[1])
    ELSE IF IsFinite(b) THEN <<SignInt(a[1]), 0>>
    ELSE IF IsFinite(a) THEN Zero ELSE NaN
AbsNum(a) == <<AbsInt(a[1]), a[2]>>

\* a < b and a > b as IEEE comparisons: false when either side is NaN
Lt(a, b) == ~IsNaN(a) /\ ~IsNaN(b) /\ a[1] * b[2] < b[1] * a[2]
Gt(a, b) == Lt(b, a)
Le(a, b) == ~IsNaN(a) /\ ~IsNaN(b) /\ a[1] * b[2] <= b[1] * a[2]

\* tol = 1e-8, kept as the denominator of 1/tol
TolDen == 100000000
\* a < tol and a > tol for a >= 0, without forming a[1] * TolDen
LtTol(a) ==
    /\ ~IsNaN(a)
    /\ IsFinite(a)
    /\ (a[1] <= 0 \/ (a[2] - 1) \div a[1] >= TolDen)
GtTol(a) ==
    /\ ~IsNaN(a)
    /\ a[1] > 0
    /\ (IsFinite(a) => a[2] \div a[1] < TolDen)

\* JavaScript's  v || 0 : NaN and 0 both give 0
OrZero(a) == IF IsNaN(a) \/ a = Zero THEN Zero ELSE a

(***************************************************************************)
(* Sequences                                                               *)
(***************************************************************************)
RECURSIVE IndexFrom(_, _, _)
IndexFrom(seq, v, k) ==
    IF k > Len(seq) THEN 0
    ELSE IF seq[k] = v THEN k ELSE IndexFrom(seq, v, k + 1)

\* Array.prototype.indexOf, 1-based, 0 when absent
IndexOf(seq, v) == IndexFrom(seq, v, 1)

Includes(seq, v) == IndexOf(seq, v) # 0

Zeros(len) == [j \in 1..len |-> Zero]

\* numeric insertion of v into the ascending sequence seq
RECURSIVE InsertSorted(_, _)
InsertSorted(seq, v) ==
    IF seq = <<>> THEN <<v>>
    ELSE IF v < Head(seq) THEN <<v>> \o seq
    ELSE <<Head(seq)>> \o InsertSorted(Tail(seq), v)

\* mutant: the identifiers stay in order of first appearance
SortBySuffixNone(seq) == seq

\* objVariables.sort((a, b) => parseInt(a.substring(1)) - parseInt(b.substring(1)))
RECURSIVE SortBySuffix(_)
SortBySuffix(seq) ==
    IF seq = <<>> THEN <<>>
    ELSE InsertSorted(SortBySuffix(Tail(seq)), Head(seq))

(***************************************************************************)
(* Strings: terms, expressions, constraints                                *)
(***************************************************************************)
\* One sign-delimited term: sign is "", "+" or "-"; digits is <<>> when the
\* term has no number and <<q>> when its number is q; var is k for the
\* identifier xk and 0 when the rest of the term is no known identifier.
Term(sign, digits, var) == [sign |-> sign, digits |-> digits, var |-> var]

\* an expression string: its terms and the whitespace around it
Expr(terms, ws) == [terms |-> terms, ws |-> ws]

\* a constraint string: left side, relational operators found by
\* split(/<=|>=|=/), the parseFloat of the part after the first operator
Cons(lhs, ops, rhs, ws) == [lhs |-> lhs, ops |-> ops, rhs |-> rhs, ws |-> ws]

\* String.prototype.trim
TrimExpr(e) == [e EXCEPT !.ws = 0]
TrimCons(c) == [c EXCEPT !.ws = 0]

\* s === ""
IsEmptyExpr(e) == e.terms = <<>> /\ e.ws = 0
IsEmptyCons(c) == c.lhs = <<>> /\ c.ops = <<>> /\ c.ws = 0

RECURSIVE FilterNonEmpty(_)
FilterNonEmpty(cs) ==
    IF cs = <<>> THEN <<>>
    ELSE IF IsEmptyCons(Head(cs)) THEN FilterNonEmpty(Tail(cs))
    ELSE <<Head(cs)>> \o FilterNonEmpty(Tail(cs))

\* mutant: the blank strings are trimmed but kept
TrimOnly(cs) == [i \in 1..Len(cs) |-> TrimCons(cs[i])]

\* constraints.map((c) => c.trim()).filter((c) => c !== "")
TrimAndFilter(cs) == FilterNonEmpty([i \in 1..Len(cs) |-> TrimCons(cs[i])])

\* number of parts of constraint.split(/<=|>=|=/)
NumParts(c) == Len(c.ops) + 1

\* constraint.includes("<=")
HasOp(c, op) == Includes(c.ops, op)

\* mutant: the sign of the term is dropped
TermCoefUnsigned(t) == IF t.digits = <<>> THEN One ELSE t.digits[1]

\* coefStr === "" || coefStr === "+" ? 1 : coefStr === "-" ? -1 : parseFloat(coefStr)
TermCoef(t) ==
    IF t.digits = <<>> THEN (IF t.sign = "-" THEN Neg(One) ELSE One)
    ELSE IF t.sign = "-" THEN Neg(t.digits[1]) ELSE t.digits[1]

\* expression.match(/x\d+/g) deduplicated, in order of first appearance
RECURSIVE ExtractVariables(_)
ExtractVariables(terms) ==
    IF terms = <<>> THEN <<>>
    ELSE LET rest == ExtractVariables(Tail(terms))
             v == Head(terms).var
         IN IF v = 0 THEN rest
            ELSE <<v>> \o SelectSeq(rest, LAMBDA w : w # v)

\* push every variable of vs that acc does not include yet
RECURSIVE PushNew(_, _)
PushNew(acc, vs) ==
    IF vs = <<>> THEN acc
    ELSE IF Includes(acc, Head(vs)) THEN PushNew(acc, Tail(vs))
    ELSE PushNew(Append(acc, Head(vs)), Tail(vs))

RECURSIVE CollectVariables(_, _)
CollectVariables(acc, cs) ==
    IF cs = <<>> THEN acc
    ELSE CollectVariables(PushNew(acc, ExtractVariables(Head(cs).lhs)), Tail(cs))

\* parseInput: the sorted identifiers of the objective and the constraints
ParseVariables(obj, cs) ==
    SortBySuffix(CollectVariables(ExtractVariables(obj.terms), cs))

(***************************************************************************)
(* Error messages                                                          *)
(***************************************************************************)
NoError == ""
ErrNoConstraint == "At least one constraint is required"
ErrNoObjective == "Objective function is required"
ErrInfeasible == "No feasible solution"
ErrFormat == "Invalid constraint format"
ErrRhs == "Invalid right-hand side in constraint"
ErrUnbounded == "No finite solution"

(***************************************************************************)
(* SimplexSolver: constructor checks and initializeMatrix                  *)
(***************************************************************************)
\* the pair (ci, cj), i < j, is a direct contradiction: same left side, one
\* "<=" bound and one ">=" bound, both numeric, lower > upper
Contradicts(ci, cj) ==
    /\ NumParts(ci) = 2
    /\ NumParts(cj) = 2
    /\ ci.lhs = cj.lhs
    /\ \/ HasOp(ci, "<=") /\ HasOp(cj, ">=")
          /\ ~IsNaN(ci.rhs) /\ ~IsNaN(cj.rhs) /\ Gt(cj.rhs, ci.rhs)
       \/ HasOp(ci, ">=") /\ HasOp(cj, "<=")
          /\ ~IsNaN(cj.rhs) /\ ~IsNaN(ci.rhs) /\ Gt(ci.rhs, cj.rhs)

HasContradiction(cs) ==
    \E i \in 1..Len(cs) : \E j \in (i + 1)..Len(cs) : Contradicts(cs[i], cs[j])

\* the loop over the terms of one expression: matrix[i][varIndex] = sign * coef
\* for every term whose identifier is a known variable, a later term
\* overwriting an earlier one
RECURSIVE SetCoefs(_, _, _, _)
SetCoefs(row, terms, vars, sign) ==
    IF terms = <<>> THEN row
    ELSE LET t == Head(terms)
             varIndex == IF t.var = 0 THEN 0 ELSE IndexOf(vars, t.var)
             next == IF varIndex # 0
                     THEN [row EXCEPT ![varIndex] = Mul(sign, TermCoef(t))]
                     ELSE row
         IN SetCoefs(next, Tail(terms), vars, sign)

\* mutant: a ">=" constraint gets the slack entry +1 of a "<=" constraint
ConstraintRowSlackPlus(c, i, vars, numConstraints) ==
    LET numVars == Len(vars)
        withRhs == [Zeros(numVars + numConstraints + 2)
                       EXCEPT ![numVars + numConstraints + 2] = c.rhs]
        withCoefs == SetCoefs(withRhs, c.lhs, vars, One)
    IN IF HasOp(c, "<=") \/ HasOp(c, ">=") THEN [withCoefs EXCEPT ![numVars + i] = One]
       ELSE withCoefs

\* the row of constraint i (1-based) among numConstraints, over numVars variables
ConstraintRow(c, i, vars, numConstraints) ==
    LET numVars == Len(vars)
        withRhs == [Zeros(numVars + numConstraints + 2)
                       EXCEPT ![numVars + numConstraints + 2] = c.rhs]
        withCoefs == SetCoefs(withRhs, c.lhs, vars, One)
    IN IF HasOp(c, "<=") THEN [withCoefs EXCEPT ![numVars + i] = One]
       ELSE IF HasOp(c, ">=") THEN [withCoefs EXCEPT ![numVars + i] = Neg(One)]
       ELSE withCoefs

\* mutant: the objective coefficients are never negated
ObjectiveRowNotNegated(obj, vars, numConstraints, problemType) ==
    LET numVars == Len(vars)
        withCoefs == SetCoefs(Zeros(numVars + numConstraints + 2), obj.terms, vars, One)
    IN [withCoefs EXCEPT ![numVars + numConstraints + 1] = One]

\* the objective row: coefficients negated when maximizing, Z column 1
ObjectiveRow(obj, vars, numConstraints, problemType) ==
    LET numVars == Len(vars)
        sign == IF problemType = "max" THEN Neg(One) ELSE One
        withCoefs == SetCoefs(Zeros(numVars + numConstraints + 2), obj.terms, vars, sign)
    IN [withCoefs EXCEPT ![numVars + numConstraints + 1] = One]

\* mutant: the right-hand side is never looked at
RECURSIVE ConstraintErrorFormatOnly(_)
ConstraintErrorFormatOnly(cs) ==
    IF cs = <<>> THEN NoError
    ELSE IF NumParts(Head(cs)) # 2 THEN ErrFormat
    ELSE ConstraintErrorFormatOnly(Tail(cs))

\* the error the constraint loop of initializeMatrix throws, NoError if none:
\* the first constraint that is malformed decides
RECURSIVE ConstraintError(_)
ConstraintError(cs) ==
    IF cs = <<>> THEN NoError
    ELSE IF NumParts(Head(cs)) # 2 THEN ErrFormat
    ELSE IF IsNaN(Head(cs).rhs) THEN ErrRhs
    ELSE ConstraintError(Tail(cs))

\* initializeMatrix: numConstraints + 1 rows of numVars + numConstraints + 2 entries
InitializeMatrix(obj, cs, vars, problemType) ==
    [i \in 1..(Len(cs) + 1) |->
        IF i <= Len(cs) THEN ConstraintRow(cs[i], i, vars, Len(cs))
        ELSE ObjectiveRow(obj, vars, Len(cs), problemType)]

\* mutant: the constructor without the search for direct contradictions
PrimalConstructorErrorNoSearch(obj, cs) ==
    IF Len(cs) = 0 THEN ErrNoConstraint
    ELSE IF IsEmptyExpr(obj) THEN ErrNoObjective
    ELSE ConstraintError(cs)

\* the message the SimplexSolver constructor throws on (objective, constraints)
\* already trimmed and filtered, NoError when it returns
PrimalConstructorError(obj, cs) ==
    IF Len(cs) = 0 THEN ErrNoConstraint
    ELSE IF IsEmptyExpr(obj) THEN ErrNoObjective
    ELSE IF HasContradiction(cs) THEN ErrInfeasible
    ELSE ConstraintError(cs)

(***************************************************************************)
(* DualSimplexSolver: buildDualTableau                                     *)
(***************************************************************************)
\* the coefficient of variable v in the terms: the first matching term decides
RECURSIVE DualCoef(_, _)
DualCoef(terms, v) ==
    IF terms = <<>> THEN Zero
    ELSE IF Head(terms).var # 0 /\ Head(terms).var = v THEN TermCoef(Head(terms))
    ELSE DualCoef(Tail(terms), v)

\* row j: one dual constraint per primal variable
DualConstraintRow(obj, cs, vars, j) ==
    LET m == Len(cs)
        n == Len(vars)
    IN [col \in 1..(m + n + 2) |->
           IF col <= m THEN DualCoef(cs[col].lhs, vars[j])
           ELSE IF col = m + j THEN One
           ELSE IF col = m + n + 2 THEN DualCoef(obj.terms, vars[j])
           ELSE Zero]

\* mutant: the objective row holds b_i, not negated
DualObjectiveRowPlus(cs, vars) ==
    LET m == Len(cs)
        n == Len(vars)
    IN [col \in 1..(m + n + 2) |->
           IF col <= m THEN cs[col].rhs
           ELSE IF col = m + n + 1 THEN One
           ELSE Zero]

\* the objective row: -b_i per dual variable, p column 1
DualObjectiveRow(cs, vars) ==
    LET m == Len(cs)
        n == Len(vars)
    IN [col \in 1..(m + n + 2) |->
           IF col <= m THEN Neg(cs[col].rhs)
           ELSE IF col = m + n + 1 THEN One
           ELSE Zero]

BuildDualTableau(obj, cs, vars) ==
    [j \in 1..(Len(vars) + 1) |->
        IF j <= Len(vars) THEN DualConstraintRow(obj, cs, vars, j)
        ELSE DualObjectiveRow(cs, vars)]

\* buildDualTableau checks the number of parts only
RECURSIVE DualFormatError(_)
DualFormatError(cs) ==
    IF cs = <<>> THEN NoError
    ELSE IF NumParts(Head(cs)) # 2 THEN ErrFormat
    ELSE DualFormatError(Tail(cs))

DualConstructorError(obj, cs) ==
    IF Len(cs) = 0 THEN ErrNoConstraint
    ELSE IF IsEmptyExpr(obj) THEN ErrNoObjective
    ELSE DualFormatError(cs)

(***************************************************************************)
(* Pivot engine (the same code in both solvers), on a matrix value M:      *)
(* a sequence of rows, the objective row last, the RHS column last; nc is  *)
(* the number of decision plus auxiliary columns                           *)
(***************************************************************************)
LastRow(M) == M[Len(M)]

\* mutant: the last auxiliary column is not looked at
CanImproveButLast(M, nc) == \E j \in 1..(nc - 1) : Lt(LastRow(M)[j], Zero)

\* lastRow.slice(0, nc).some((val) => val < 0)
CanImprove(M, nc) == \E j \in 1..nc : Lt(LastRow(M)[j], Zero)

\* the scan of findPivotColumn from column i on: strict <, so the first of
\* equal minima is kept
RECURSIVE PivotColumnScan(_, _, _, _, _)
PivotColumnScan(lastRow, nc, i, minVal, minIndex) ==
    IF i > nc THEN minIndex
    ELSE IF Lt(lastRow[i], minVal)
         THEN PivotColumnScan(lastRow, nc, i + 1, lastRow[i], i)
         ELSE PivotColumnScan(lastRow, nc, i + 1, minVal, minIndex)

\* mutant: Bland's rule, the first column with a negative entry
FindPivotColumnFirstNegative(M, nc) ==
    IF \E j \in 1..nc : Lt(LastRow(M)[j], Zero)
    THEN CHOOSE j \in 1..nc :
             /\ Lt(LastRow(M)[j], Zero)
             /\ \A k \in 1..(j - 1) : ~Lt(LastRow(M)[k], Zero)
    ELSE 0

\* findPivotColumn; 0 is the source's -1
FindPivotColumn(M, nc) == PivotColumnScan(LastRow(M), nc, 1, Zero, 0)

\* the scan of findPivotRow from row i on
RECURSIVE PivotRowScan(_, _, _, _, _)
PivotRowScan(M, pivotCol, i, minRatio, minRatioIndex) ==
    IF i > Len(M) - 1 THEN minRatioIndex
    ELSE IF Gt(M[i][pivotCol], Zero)
         THEN LET ratio == Div(M[i][Len(M[i])], M[i][pivotCol])
              IN IF Lt(ratio, minRatio)
                 THEN PivotRowScan(M, pivotCol, i + 1, ratio, i)
                 ELSE PivotRowScan(M, pivotCol, i + 1, minRatio, minRatioIndex)
         ELSE PivotRowScan(M, pivotCol, i + 1, minRatio, minRatioIndex)

\* mutant: rows with a zero entry are candidates too (>= for >)
FindPivotRowNonNegative(M, pivotCol) ==
    IF \E i \in 1..(Len(M) - 1) : Le(Zero, M[i][pivotCol])
    THEN CHOOSE i \in 1..(Len(M) - 1) : Le(Zero, M[i][pivotCol])
    ELSE 0

\* mutant: the first row with a positive entry, whatever its ratio
FindPivotRowFirstPositive(M, pivotCol) ==
    IF \E i \in 1..(Len(M) - 1) : Gt(M[i][pivotCol], Zero)
    THEN CHOOSE i \in 1..(Len(M) - 1) :
             /\ Gt(M[i][pivotCol], Zero)
             /\ \A k \in 1..(i - 1) : ~Gt(M[k][pivotCol], Zero)
    ELSE 0

\* mutant: of the rows tied for the minimum ratio the last one is taken
FindPivotRowLastMin(M, pivotCol) ==
    LET first == PivotRowScan(M, pivotCol, 1, PosInf, 0)
        ratio(i) == Div(M[i][Len(M[i])], M[i][pivotCol])
        tied == {i \in 1..(Len(M) - 1) :
                    Gt(M[i][pivotCol], Zero) /\ ratio(i) = ratio(first)}
    IN IF first = 0 THEN 0
       ELSE CHOOSE i \in tied : \A k \in tied : k <= i

\* mutant: the row of the largest ratio instead of the smallest
FindPivotRowMaxRatio(M, pivotCol) ==
    LET rhs == Len(M[1])
        pos == {i \in 1..(Len(M) - 1) : Gt(M[i][pivotCol], Zero)}
        Ratio(i) == Div(M[i][rhs], M[i][pivotCol])
    IN IF pos = {} THEN 0
       ELSE CHOOSE i \in pos :
                /\ \A k \in pos : Le(Ratio(k), Ratio(i))
                /\ \A k \in pos : k < i => Lt(Ratio(k), Ratio(i))

\* findPivotRow; 0 is the source's -1, on which the source throws
FindPivotRow(M, pivotCol) == PivotRowScan(M, pivotCol, 1, PosInf, 0)

\* mutant: the pivot row is normalized and the other rows are left as they are
PivotNormalizeOnly(M, pivotRow, pivotCol) ==
    [i \in 1..Len(M) |->
        IF i = pivotRow
        THEN [j \in 1..Len(M[i]) |-> Div(M[i][j], M[pivotRow][pivotCol])]
        ELSE M[i]]

\* the pivot row divided by the pivot value
NormalizedRow(M, pivotRow, pivotCol) ==
    [j \in 1..Len(M[pivotRow]) |-> Div(M[pivotRow][j], M[pivotRow][pivotCol])]

\* mutant: after the elimination the pivot row is moved to the top
PivotRowToTop(M, pivotRow, pivotCol) ==
    LET prow == NormalizedRow(M, pivotRow, pivotCol)
        done == [i \in 1..Len(M) |->
                    IF i = pivotRow THEN prow
                    ELSE [j \in 1..Len(M[i]) |-> Sub(M[i][j], Mul(M[i][pivotCol], prow[j]))]]
    IN [i \in 1..Len(M) |->
           IF i = 1 THEN done[pivotRow] ELSE IF i = pivotRow THEN done[1] ELSE done[i]]

\* mutant: the objective row is left out of the elimination
PivotConstraintRowsOnly(M, pivotRow, pivotCol) ==
    LET prow == NormalizedRow(M, pivotRow, pivotCol)
    IN [i \in 1..Len(M) |->
           IF i = pivotRow THEN prow
           ELSE IF i = Len(M) THEN M[i]
           ELSE [j \in 1..Len(M[i]) |-> Sub(M[i][j], Mul(M[i][pivotCol], prow[j]))]]

\* pivot: Gauss-Jordan elimination on (pivotRow, pivotCol)
Pivot(M, pivotRow, pivotCol) ==
    LET prow == NormalizedRow(M, pivotRow, pivotCol)
    IN [i \in 1..Len(M) |->
           IF i = pivotRow THEN prow
           ELSE [j \in 1..Len(M[i]) |-> Sub(M[i][j], Mul(M[i][pivotCol], prow[j]))]]

(***************************************************************************)
(* Solution extraction                                                     *)
(***************************************************************************)
\* variable names: <<"x", k>> is xk, <<"s", i>> is si, <<"y", i>> is yi
Name(letter, k) == <<letter, k>>

\* column j is zero (within tol) in every constraint row but row i
IsUnit(M, i, j, numRows) ==
    \A k \in 1..numRows : k # i => ~GtTol(AbsNum(M[k][j]))

\* SimplexSolver.extractSolution, the scan of the columns of row i from j on
RECURSIVE BasicColScan(_, _, _, _, _, _, _)
BasicColScan(M, i, numVars, numConstraints, j, basicCol, bestObjCoeff) ==
    IF j > numVars + numConstraints THEN basicCol
    ELSE IF LtTol(AbsNum(Sub(M[i][j], One))) /\ IsUnit(M, i, j, numConstraints)
         THEN LET objCoeff == AbsNum(LastRow(M)[j])
              IN IF j <= numVars /\ LtTol(objCoeff) THEN j
                 ELSE IF Lt(objCoeff, bestObjCoeff)
                      THEN BasicColScan(M, i, numVars, numConstraints, j + 1, j, objCoeff)
                      ELSE BasicColScan(M, i, numVars, numConstraints, j + 1,
                                        basicCol, bestObjCoeff)
         ELSE BasicColScan(M, i, numVars, numConstraints, j + 1, basicCol, bestObjCoeff)

\* mutant: the first unit column of the row, whatever its objective-row entry
BasicColFirstUnit(M, i, numVars, numConstraints) ==
    LET unit == {j \in 1..(numVars + numConstraints) :
                    LtTol(AbsNum(Sub(M[i][j], One))) /\ IsUnit(M, i, j, numConstraints)}
    IN IF unit = {} THEN 0 ELSE CHOOSE j \in unit : \A k \in unit : j <= k

\* the basic column of constraint row i, 0 when none is identified
BasicCol(M, i, numVars, numConstraints) ==
    BasicColScan(M, i, numVars, numConstraints, 1, 0, PosInf)

\* variableValues after the rows i..numConstraints, by column
RECURSIVE ReadValues(_, _, _, _, _)
ReadValues(M, numVars, numConstraints, i, values) ==
    IF i > numConstraints THEN values
    ELSE LET basicCol == BasicCol(M, i, numVars, numConstraints)
             next == IF basicCol # 0
                     THEN [values EXCEPT ![basicCol] = M[i][numVars + numConstraints + 2]]
                     ELSE values
         IN ReadValues(M, numVars, numConstraints, i + 1, next)

\* mutant: optimalValue is the objective row's RHS for "min" too
PrimalExtractNoSignCorrection(M, vars, numConstraints, problemType) ==
    LET numVars == Len(vars)
        values == ReadValues(M, numVars, numConstraints, 1, Zeros(numVars + numConstraints))
    IN [optimalValue |-> LastRow(M)[numVars + numConstraints + 2],
        variables |-> [j \in 1..(numVars + numConstraints) |->
                          [name |-> IF j <= numVars THEN Name("x", vars[j])
                                    ELSE Name("s", j - numVars),
                           value |-> OrZero(values[j])]],
        feasible |-> TRUE]

\* mutant: optimalValue is negated for "max" as well
PrimalExtractAlwaysNegated(M, vars, numConstraints, problemType) ==
    LET numVars == Len(vars)
        values == ReadValues(M, numVars, numConstraints, 1, Zeros(numVars + numConstraints))
        rhs == LastRow(M)[numVars + numConstraints + 2]
    IN [optimalValue |-> Neg(rhs),
        variables |-> [j \in 1..(numVars + numConstraints) |->
                          [name |-> IF j <= numVars THEN Name("x", vars[j])
                                    ELSE Name("s", j - numVars),
                           value |-> OrZero(values[j])]],
        feasible |-> TRUE]

\* mutant: feasible reports whether every constraint row's RHS is >= 0
PrimalExtractWithCheck(M, vars, numConstraints, problemType) ==
    LET numVars == Len(vars)
        values == ReadValues(M, numVars, numConstraints, 1, Zeros(numVars + numConstraints))
        rhs == LastRow(M)[numVars + numConstraints + 2]
    IN [optimalValue |-> IF problemType = "min" THEN Neg(rhs) ELSE rhs,
        variables |-> [j \in 1..(numVars + numConstraints) |->
                          [name |-> IF j <= numVars THEN Name("x", vars[j])
                                    ELSE Name("s", j - numVars),
                           value |-> OrZero(values[j])]],
        feasible |-> \A i \in 1..numConstraints :
                        Le(Zero, M[i][numVars + numConstraints + 2])]

PrimalExtractSolution(M, vars, numConstraints, problemType) ==
    LET numVars == Len(vars)
        values == ReadValues(M, numVars, numConstraints, 1, Zeros(numVars + numConstraints))
        rhs == LastRow(M)[numVars + numConstraints + 2]
    IN [optimalValue |-> IF problemType = "min" THEN Neg(rhs) ELSE rhs,
        variables |-> [j \in 1..(numVars + numConstraints) |->
                          [name |-> IF j <= numVars THEN Name("x", vars[j])
                                    ELSE Name("s", j - numVars),
                           value |-> OrZero(values[j])]],
        feasible |-> TRUE]

\* mutant: the last dual column that is a unit column of row i
DualBasicColScanLast(M, i, numDualVars, numRows, j) ==
    LET unit == {c \in j..numDualVars :
                    LtTol(AbsNum(Sub(M[i][c], One))) /\ IsUnit(M, i, c, numRows)}
    IN IF unit = {} THEN 0 ELSE CHOOSE c \in unit : \A k \in unit : k <= c

\* DualSimplexSolver.extractSolution: the first dual column that is a unit
\* column of row i, 0 when there is none
RECURSIVE DualBasicColScan(_, _, _, _, _)
DualBasicColScan(M, i, numDualVars, numRows, j) ==
    IF j > numDualVars THEN 0
    ELSE IF LtTol(AbsNum(Sub(M[i][j], One))) /\ IsUnit(M, i, j, numRows) THEN j
    ELSE DualBasicColScan(M, i, numDualVars, numRows, j + 1)

RECURSIVE DualReadValues(_, _, _, _, _)
DualReadValues(M, numDualVars, numRows, i, values) ==
    IF i > numRows THEN values
    ELSE LET basicCol == DualBasicColScan(M, i, numDualVars, numRows, 1)
             next == IF basicCol # 0
                     THEN [values EXCEPT ![basicCol] = M[i][Len(M[i])]]
                     ELSE values
         IN DualReadValues(M, numDualVars, numRows, i + 1, next)

DualExtractSolution(M, numDualVars, numSlackVars) ==
    LET fromLastRow == [j \in 1..(numDualVars + numSlackVars) |->
                           IF j <= numDualVars THEN Zero ELSE LastRow(M)[j]]
        values == DualReadValues(M, numDualVars, numSlackVars, 1, fromLastRow)
    IN [optimalValue |-> LastRow(M)[numDualVars + numSlackVars + 2],
        variables |-> [j \in 1..(numDualVars + numSlackVars) |->
                          [name |-> IF j <= numDualVars THEN Name("y", j)
                                    ELSE Name("s", j - numDualVars),
                           value |-> OrZero(values[j])]],
        feasible |-> TRUE]

(***************************************************************************)
(* Inputs                                                                  *)
(***************************************************************************)
\* the term the page builds for coefficient a of xk: `${num}x${index + 1}`
CoefTerm(a, k) ==
    Term(IF a < 0 THEN "-" ELSE "", <<Int2Num(AbsInt(a))>>, k)

\* the terms of a row of integer coefficients, zero coefficients left out
RECURSIVE RowTerms(_, _)
RowTerms(coefs, k) ==
    IF k > Len(coefs) THEN <<>>
    ELSE IF coefs[k] = 0 THEN RowTerms(coefs, k + 1)
    ELSE <<CoefTerm(coefs[k], k)>> \o RowTerms(coefs, k + 1)

\* the terms of an objective: every coefficient written, zero included
ObjTerms(coefs) == [k \in 1..Len(coefs) |-> CoefTerm(coefs[k], k)]

\* "a1x1 + a2x2 op b"
PlainCons(coefs, op, b) == Cons(RowTerms(coefs, 1), <<op>>, Int2Num(b), 0)

Input(objTerms, cs, problemType) ==
    [objective |-> Expr(objTerms, 0), constraints |-> cs, problemType |-> problemType]

\* maximize 3x1 + 5x2 subject to x1 <= 4, 2x2 <= 12, 3x1 + 2x2 <= 18
Textbook ==
    Input(<<Term("", <<Int2Num(3)>>, 1), Term("+", <<Int2Num(5)>>, 2)>>,
          <<Cons(<<Term("", <<>>, 1)>>, <<"<=">>, Int2Num(4), 0),
            Cons(<<Term("", <<Int2Num(2)>>, 2)>>, <<"<=">>, Int2Num(12), 0),
            Cons(<<Term("", <<Int2Num(3)>>, 1), Term("+", <<Int2Num(2)>>, 2)>>,
                 <<"<=">>, Int2Num(18), 0)>>,
          "max")

\* maximize x1 subject to x1 - x2 <= 1
UnboundedExample ==
    Input(<<Term("", <<>>, 1)>>,
          <<Cons(<<Term("", <<>>, 1), Term("-", <<>>, 2)>>, <<"<=">>, Int2Num(1), 0)>>,
          "max")

\* x1 <= 2 together with x1 >= 5
ContradictoryExample ==
    Input(<<Term("", <<>>, 1)>>,
          <<Cons(<<Term("", <<>>, 1)>>, <<"<=">>, Int2Num(2), 0),
            Cons(<<Term("", <<>>, 1)>>, <<">=">>, Int2Num(5), 0)>>,
          "max")

\* maximize x2 subject to x1 + x2 <= 5
OrderExample ==
    Input(<<Term("", <<>>, 2)>>,
          <<Cons(<<Term("", <<>>, 1), Term("+", <<>>, 2)>>, <<"<=">>, Int2Num(5), 0)>>,
          "max")

\* minimize -2.5x1 + x3 subject to x2 <= 1, -2.5x1 + x3 >= 1
CoefficientExample ==
    Input(<<Term("-", <<Norm(5, 2)>>, 1), Term("+", <<>>, 3)>>,
          <<Cons(<<Term("", <<>>, 2)>>, <<"<=">>, Int2Num(1), 0),
            Cons(<<Term("-", <<Norm(5, 2)>>, 1), Term("+", <<>>, 3)>>,
                 <<">=">>, Int2Num(1), 0)>>,
          "min")

\* maximize x1 + x2 subject to 2x1 + x2 <= 2: row 1 is the pivot row twice
RepivotExample ==
    Input(<<Term("", <<>>, 1), Term("+", <<>>, 2)>>,
          <<Cons(<<Term("", <<Int2Num(2)>>, 1), Term("+", <<>>, 2)>>,
                 <<"<=">>, Int2Num(2), 0)>>,
          "max")

\* maximize x1 + 2x1 subject to x1 + 3x1 <= 2: x1 is named by two terms
RepeatedExample ==
    Input(<<Term("", <<>>, 1), Term("+", <<Int2Num(2)>>, 1)>>,
          <<Cons(<<Term("", <<>>, 1), Term("+", <<Int2Num(3)>>, 1)>>,
                 <<"<=">>, Int2Num(2), 0)>>,
          "max")

NamedInputs ==
    {Textbook, UnboundedExample, ContradictoryExample, OrderExample, CoefficientExample,
     RepivotExample, RepeatedExample}

\* largest right-hand side of the enumerated problems
MaxRhs == 2

ProblemTypes == {"max", "min"}

\* coefficient rows and objectives over x1, x2
Rows == {<<1, 0>>, <<0, 1>>, <<1, 1>>, <<1, -1>>, <<-1, 1>>, <<1, 2>>}
Objectives == {<<1, 1>>, <<1, 2>>, <<2, 1>>, <<1, -1>>, <<-1, -1>>, <<0, 1>>}

\* standard form: two "<=" constraints with right-hand sides in 0..MaxRhs
StandardInputs ==
    {Input(ObjTerms(c), <<PlainCons(r1, "<=", b1), PlainCons(r2, "<=", b2)>>, t) :
        c \in Objectives, r1 \in Rows, r2 \in Rows,
        b1 \in 0..MaxRhs, b2 \in 0..MaxRhs, t \in ProblemTypes}

\* any relational operator, right-hand sides of either sign
Operators == {"<=", ">=", "="}
MixedRows == {<<1, 0>>, <<0, 1>>, <<1, 1>>, <<1, -1>>}
MixedObjectives == {<<1, 1>>, <<1, -1>>, <<-1, 2>>}
MixedRhs == {-1, 2}

MixedInputs ==
    {Input(ObjTerms(c), <<PlainCons(r1, o1, b1), PlainCons(r2, o2, b2)>>, t) :
        c \in MixedObjectives, r1 \in MixedRows, r2 \in MixedRows,
        o1 \in Operators, o2 \in Operators,
        b1 \in MixedRhs, b2 \in MixedRhs, t \in ProblemTypes}

\* constraint strings as a caller may pass them: "", " ", " x1 <= 2 ",
\* "x1 + x2 <= 2", "x1", "x1 <= 2 <= 2", "x1 <= abc", "2x2 + y1 >= 1"
BlankCons == Cons(<<>>, <<>>, NaN, 0)
SpaceCons == Cons(<<>>, <<>>, NaN, 1)
RawConstraints ==
    {BlankCons,
     SpaceCons,
     Cons(<<Term("", <<>>, 1)>>, <<"<=">>, Int2Num(2), 1),
     Cons(<<Term("", <<>>, 1), Term("+", <<>>, 2)>>, <<"<=">>, Int2Num(2), 0),
     Cons(<<Term("", <<>>, 1)>>, <<>>, NaN, 0),
     Cons(<<Term("", <<>>, 1)>>, <<"<=", "<=">>, Int2Num(2), 0),
     Cons(<<Term("", <<>>, 1)>>, <<"<=">>, NaN, 0),
     Cons(<<Term("", <<Int2Num(2)>>, 2), Term("+", <<>>, 0)>>, <<">=">>, Int2Num(1), 0)}

\* objective strings: "", " ", " x1 ", "x1 + 3", "x1 + 2x2"
RawObjectives ==
    {Expr(<<>>, 0),
     Expr(<<>>, 1),
     Expr(<<Term("", <<>>, 1)>>, 1),
     Expr(<<Term("", <<>>, 1), Term("+", <<Int2Num(3)>>, 0)>>, 0),
     Expr(<<Term("", <<>>, 1), Term("+", <<Int2Num(2)>>, 2)>>, 0)}

RawConstraintLists ==
    {<<>>}
    \cup {<<c>> : c \in RawConstraints}
    \cup {<<c1, c2>> : c1 \in RawConstraints, c2 \in RawConstraints}
    \cup {<<BlankCons, c, SpaceCons>> : c \in RawConstraints}

RawInputs ==
    {[objective |-> o, constraints |-> cs, problemType |-> "max"] :
        o \in RawObjectives, cs \in RawConstraintLists}

Inputs == NamedInputs \cup StandardInputs \cup MixedInputs \cup RawInputs

(***************************************************************************)
(* The solver object and its operations                                    *)
(***************************************************************************)
MaxPivots == 6
MaxSolves == 2

VARIABLES
    input,        \* the constructor's arguments
    kind,         \* "primal" (SimplexSolver) or "dual" (DualSimplexSolver)
    pc,           \* "new", "failed" (constructor threw), "idle", "solving"
    objective,    \* this.objective
    constraints,  \* this.constraints
    variables,    \* this.variables / this.originalVariables: suffixes k of xk
    heap,         \* the row arrays allocated so far
    matrix,       \* this.matrix: the addresses of its rows
    steps,        \* this.steps
    error,        \* the message of the error thrown by the last call, or NoError
    results,      \* what the solve() calls so far returned, in call order
    calls,        \* the number of solve() calls so far
    entry,        \* history: the matrix value the current solve() call started from
    pivots        \* history: the number of pivot() calls of the current solve() call

vars == <<input, kind, pc, objective, constraints, variables, heap, matrix,
          steps, error, results, calls, entry, pivots>>

\* the rows an array of row addresses holds
Deref(table, hp) == [i \in 1..Len(table) |-> hp[table[i]]]

\* the live matrix as a value
Live == Deref(matrix, heap)

\* the heap after the rows of the live matrix are overwritten by those of M
StoreRows(table, hp, M) ==
    [a \in 1..Len(hp) |->
        IF \E i \in 1..Len(table) : table[i] = a
        THEN M[CHOOSE i \in 1..Len(table) : table[i] = a]
        ELSE hp[a]]

\* mutant: a shallow copy, [...matrix], sharing the row arrays
CloneMatrixShallow(table, hp) == [table |-> table, heap |-> hp]

\* cloneMatrix: matrix.map((row) => [...row]), every row a new array
CloneMatrix(table, hp) ==
    [table |-> [i \in 1..Len(table) |-> Len(hp) + i],
     heap |-> hp \o Deref(table, hp)]

\* number of decision plus auxiliary columns
NumCols == Len(variables) + Len(constraints)

Init ==
    /\ input \in Inputs
    /\ kind \in {"primal", "dual"}
    /\ pc = "new"
    /\ objective = Expr(<<>>, 0)
    /\ constraints = <<>>
    /\ variables = <<>>
    /\ heap = <<>>
    /\ matrix = <<>>
    /\ steps = <<>>
    /\ error = NoError
    /\ results = <<>>
    /\ calls = 0
    /\ entry = <<>>
    /\ pivots = 0

ConstructorError(k, obj, cs) ==
    IF k = "primal" THEN PrimalConstructorError(obj, cs)
    ELSE DualConstructorError(obj, cs)

BuildMatrix(k, obj, cs, vs, problemType) ==
    IF k = "primal" THEN InitializeMatrix(obj, cs, vs, problemType)
    ELSE BuildDualTableau(obj, cs, vs)

\* the position of the first constraint on which the builder of kind k throws
RECURSIVE FirstBad(_, _, _)
FirstBad(k, cs, i) ==
    IF i > Len(cs) THEN 0
    ELSE IF NumParts(cs[i]) # 2 \/ (k = "primal" /\ IsNaN(cs[i].rhs)) THEN i
    ELSE FirstBad(k, cs, i + 1)

\* this.matrix when the builder throws on constraint number bad: allocated
\* with zeros and filled up to the throw
PartialMatrix(k, obj, cs, vs, bad) ==
    LET m == Len(cs)
        n == Len(vs)
    IN IF k = "primal"
       THEN [i \in 1..(m + 1) |->
                IF i < bad THEN ConstraintRow(cs[i], i, vs, m) ELSE Zeros(n + m + 2)]
       ELSE [j \in 1..(n + 1) |->
                [col \in 1..(m + n + 2) |->
                    IF j = 1 /\ col < bad
                    THEN (IF n = 0 THEN Neg(cs[col].rhs) ELSE DualCoef(cs[col].lhs, vs[1]))
                    ELSE Zero]]

\* new SimplexSolver(...) / new DualSimplexSolver(...) returns
Construct ==
    /\ pc = "new"
    /\ LET obj == TrimExpr(input.objective)
           cs == TrimAndFilter(input.constraints)
           vs == ParseVariables(obj, cs)
           M == BuildMatrix(kind, obj, cs, vs, input.problemType)
       IN /\ ConstructorError(kind, obj, cs) = NoError
          /\ objective' = obj
          /\ constraints' = cs
          /\ variables' = vs
          /\ heap' = M
          /\ matrix' = [i \in 1..Len(M) |-> i]
    /\ pc' = "idle"
    /\ UNCHANGED <<input, kind, steps, error, results, calls, entry, pivots>>

\* the constructor throws: before parseInput (no constraint, no objective,
\* contradiction) or inside the builder (malformed constraint)
ConstructThrows ==
    /\ pc = "new"
    /\ LET obj == TrimExpr(input.objective)
           cs == TrimAndFilter(input.constraints)
           vs == ParseVariables(obj, cs)
           err == ConstructorError(kind, obj, cs)
           M == PartialMatrix(kind, obj, cs, vs, FirstBad(kind, cs, 1))
       IN /\ err # NoError
          /\ error' = err
          /\ objective' = obj
          /\ constraints' = cs
          /\ IF err \in {ErrFormat, ErrRhs}
             THEN /\ variables' = vs
                  /\ heap' = M
                  /\ matrix' = [i \in 1..Len(M) |-> i]
             ELSE UNCHANGED <<variables, heap, matrix>>
    /\ pc' = "failed"
    /\ UNCHANGED <<input, kind, steps, results, calls, entry, pivots>>

\* mutant: solve() is entered without saving the initial tableau
SolveBeginNoSnapshot ==
    /\ pc = "idle"
    /\ calls < MaxSolves
    /\ steps' = <<>>
    /\ pc' = "solving"
    /\ calls' = calls + 1
    /\ error' = NoError
    /\ entry' = Live
    /\ pivots' = 0
    /\ UNCHANGED <<input, kind, objective, constraints, variables, heap, matrix, results>>

\* solve() is entered: this.steps = [] and the initial snapshot
SolveBegin ==
    /\ pc = "idle"
    /\ calls < MaxSolves
    /\ LET c == CloneMatrix(matrix, heap)
       IN /\ heap' = c.heap
          /\ steps' = <<[table |-> c.table]>>
    /\ pc' = "solving"
    /\ calls' = calls + 1
    /\ error' = NoError
    /\ entry' = Live
    /\ pivots' = 0
    /\ UNCHANGED <<input, kind, objective, constraints, variables, matrix, results>>

EnteringName(pivotCol) ==
    IF kind = "primal"
    THEN (IF pivotCol <= Len(variables) THEN Name("x", variables[pivotCol])
          ELSE Name("s", pivotCol - Len(variables)))
    ELSE (IF pivotCol <= Len(constraints) THEN Name("y", pivotCol)
          ELSE Name("s", pivotCol - Len(constraints)))

LeavingName(pivotRow) ==
    IF kind = "primal"
    THEN (IF pivotRow <= Len(constraints) THEN Name("s", pivotRow) ELSE Name("Z", 0))
    ELSE (IF pivotRow <= Len(variables) THEN Name("x", variables[pivotRow])
          ELSE Name("p", 0))

\* one iteration of the while loop: select, pivot in place, record the step
Iterate ==
    /\ pc = "solving"
    /\ Len(steps) - 1 < MaxPivots
    /\ CanImprove(Live, NumCols)
    /\ LET pivotCol == FindPivotColumn(Live, NumCols)
           pivotRow == FindPivotRow(Live, pivotCol)
           pivotInfo == [row |-> pivotRow, col |-> pivotCol,
                         entering |-> EnteringName(pivotCol),
                         leaving |-> LeavingName(pivotRow)]
       IN /\ pivotRow # 0
          /\ LET c == CloneMatrix(matrix,
                         StoreRows(matrix, heap, Pivot(Live, pivotRow, pivotCol)))
             IN /\ heap' = c.heap
                /\ steps' = Append(steps, [table |-> c.table, pivotInfo |-> pivotInfo])
    /\ pivots' = pivots + 1
    /\ UNCHANGED <<input, kind, pc, objective, constraints, variables, matrix,
                   error, results, calls, entry>>

\* findPivotRow throws: solve() is left without a result
ThrowUnbounded ==
    /\ pc = "solving"
    /\ CanImprove(Live, NumCols)
    /\ FindPivotRow(Live, FindPivotColumn(Live, NumCols)) = 0
    /\ error' = ErrUnbounded
    /\ pc' = "idle"
    /\ UNCHANGED <<input, kind, objective, constraints, variables, heap, matrix,
                   steps, results, calls, entry, pivots>>

ExtractSolution ==
    IF kind = "primal"
    THEN PrimalExtractSolution(Live, variables, Len(constraints), input.problemType)
    ELSE DualExtractSolution(Live, Len(constraints), Len(variables))

\* the loop ends: the solution is extracted and { solution, steps } returned
Return ==
    /\ pc = "solving"
    /\ ~CanImprove(Live, NumCols)
    /\ results' = Append(results, [solution |-> ExtractSolution, steps |-> steps])
    /\ pc' = "idle"
    /\ UNCHANGED <<input, kind, objective, constraints, variables, heap, matrix,
                   steps, error, calls, entry, pivots>>

Next ==
    \/ Construct
    \/ ConstructThrows
    \/ SolveBegin
    \/ Iterate
    \/ ThrowUnbounded
    \/ Return

Spec == Init /\ [][Next]_vars

\* The loop of solve() seen on pc and pivots alone: IterateProgress,
\* ThrowProgress and ReturnProgress are enabled exactly when Iterate,
\* ThrowUnbounded and Return are (the same guards, the bound on pivots
\* included), and a step of Next is one of them exactly when it is the
\* corresponding action.
IterateProgress ==
    /\ pc = "solving"
    /\ Len(steps) - 1 < MaxPivots
    /\ CanImprove(Live, NumCols)
    /\ FindPivotRow(Live, FindPivotColumn(Live, NumCols)) # 0
    /\ pivots' = pivots + 1

ThrowProgress ==
    /\ pc = "solving"
    /\ CanImprove(Live, NumCols)
    /\ FindPivotRow(Live, FindPivotColumn(Live, NumCols)) = 0
    /\ pc' = "idle"

ReturnProgress ==
    /\ pc = "solving"
    /\ ~CanImprove(Live, NumCols)
    /\ pc' = "idle"

\* the problems on which the loop is run to its end: the named ones, and
\* standard-form maximizations with right-hand sides 0 (degenerate) and MaxRhs
LoopInputs ==
    NamedInputs
    \cup {Input(ObjTerms(c), <<PlainCons(r1, "<=", b1), PlainCons(r2, "<=", b2)>>, "max") :
             c \in Objectives, r1 \in Rows, r2 \in Rows,
             b1 \in {0, MaxRhs}, b2 \in {0, MaxRhs}}

FairInit == Init /\ input \in LoopInputs

\* solve() is synchronous: once entered, the loop takes its next iteration,
\* throws or returns; constructing a solver and calling solve() is up to the
\* caller
FairSpec ==
    /\ FairInit
    /\ [][Next]_vars
    /\ WF_pivots(IterateProgress) /\ WF_pc(ThrowProgress) /\ WF_pc(ReturnProgress)

(***************************************************************************)
(* solve() as a function of the constructor's arguments, for comparing two *)
(* runs                                                                    *)
(***************************************************************************)
\* the while loop of solve() from matrix M: the pivots made, as <<row, col>>,
\* and how the loop ends ("optimal", "unbounded", or "cap" after MaxPivots)
RECURSIVE RunPivots(_, _, _)
RunPivots(M, nc, done) ==
    IF ~CanImprove(M, nc) THEN [status |-> "optimal", final |-> M, pivots |-> done]
    ELSE LET pivotCol == FindPivotColumn(M, nc)
             pivotRow == FindPivotRow(M, pivotCol)
         IN IF pivotRow = 0 THEN [status |-> "unbounded", final |-> M, pivots |-> done]
            ELSE IF Len(done) >= MaxPivots THEN [status |-> "cap", final |-> M, pivots |-> done]
            ELSE RunPivots(Pivot(M, pivotRow, pivotCol), nc,
                           Append(done, <<pivotRow, pivotCol>>))

\* new SimplexSolver(obj, cs, problemType).solve() on trimmed arguments the
\* constructor accepts
PrimalSolve(obj, cs, problemType) ==
    LET vs == ParseVariables(obj, cs)
        run == RunPivots(InitializeMatrix(obj, cs, vs, problemType), Len(vs) + Len(cs), <<>>)
    IN [status |-> run.status,
        pivots |-> run.pivots,
        solution |-> PrimalExtractSolution(run.final, vs, Len(cs), problemType)]

\* the while loop of solve() from matrix M with the steps recorded: each
\* table as a value, and the pivot (<<>> for the initial one) as <<row, col>>
RECURSIVE RunSteps(_, _, _)
RunSteps(M, nc, done) ==
    IF ~CanImprove(M, nc) THEN [status |-> "optimal", final |-> M, steps |-> done]
    ELSE LET pivotCol == FindPivotColumn(M, nc)
             pivotRow == FindPivotRow(M, pivotCol)
         IN IF pivotRow = 0 THEN [status |-> "unbounded", final |-> M, steps |-> done]
            ELSE IF Len(done) > MaxPivots THEN [status |-> "cap", final |-> M, steps |-> done]
            ELSE LET P == Pivot(M, pivotRow, pivotCol)
                 IN RunSteps(P, nc, Append(done, [table |-> P, pivot |-> <<pivotRow, pivotCol>>]))

\* mutant: the dual solver negates optimalValue when the problem is "min"
DualSolveNegatedForMin(obj, cs, problemType) ==
    LET vs == ParseVariables(obj, cs)
        M == BuildDualTableau(obj, cs, vs)
        run == RunSteps(M, Len(vs) + Len(cs), <<[table |-> M, pivot |-> <<>>]>>)
        sol == DualExtractSolution(run.final, Len(cs), Len(vs))
    IN [status |-> run.status,
        steps |-> run.steps,
        solution |-> IF problemType = "min"
                     THEN [sol EXCEPT !.optimalValue = Neg(@)] ELSE sol]

\* new DualSimplexSolver(obj, cs, problemType).solve() on trimmed arguments
\* the constructor accepts; problemType is stored and never read
DualSolve(obj, cs, problemType) ==
    LET vs == ParseVariables(obj, cs)
        M == BuildDualTableau(obj, cs, vs)
        run == RunSteps(M, Len(vs) + Len(cs), <<[table |-> M, pivot |-> <<>>]>>)
    IN [status |-> run.status,
        steps |-> run.steps,
        solution |-> DualExtractSolution(run.final, Len(cs), Len(vs))]

(***************************************************************************)
(* Properties                                                              *)
(***************************************************************************)
\* the last solve() call returned
Returned == pc = "idle" /\ calls >= 1 /\ error = NoError

\* solution reports value q for the variable called name
HasValue(solution, name, q) ==
    \E i \in 1..Len(solution.variables) :
        solution.variables[i].name = name /\ solution.variables[i].value = q

\* C1: SimplexSolver on maximize 3x1 + 5x2 subject to x1 <= 4, 2x2 <= 12,
\* 3x1 + 2x2 <= 18 does not throw, and solve() returns optimalValue 36 with
\* x1 = 2 and x2 = 6 among solution.variables.
C1_Textbook ==
    (input = Textbook /\ kind = "primal") =>
        /\ pc # "failed"
        /\ error = NoError
        /\ Len(results) >= 1 =>
              /\ results[1].solution.optimalValue = Int2Num(36)
              /\ HasValue(results[1].solution, Name("x", 1), Int2Num(2))
              /\ HasValue(results[1].solution, Name("x", 2), Int2Num(6))

C1_Witness == input = Textbook /\ kind = "primal" /\ Len(results) >= 1

\* ---- the linear program an input denotes, read off its strings ----

\* the signed number a term writes
TermValue(t) ==
    Mul(IF t.sign = "-" THEN Neg(One) ELSE One,
        IF t.digits = <<>> THEN One ELSE t.digits[1])

\* every term names a variable and no variable is named twice
PlainTerms(terms) ==
    /\ \A k \in 1..Len(terms) : terms[k].var # 0
    /\ \A k, l \in 1..Len(terms) : terms[k].var = terms[l].var => k = l

\* the coefficient of xv in plain terms
CoefOf(terms, v) ==
    IF \E k \in 1..Len(terms) : terms[k].var = v
    THEN TermValue(terms[CHOOSE k \in 1..Len(terms) : terms[k].var = v])
    ELSE Zero

\* the identifiers xv the solver was constructed on
VarIds ==
    {objective.terms[k].var : k \in 1..Len(objective.terms)}
    \cup UNION {{constraints[i].lhs[k].var : k \in 1..Len(constraints[i].lhs)} :
                    i \in 1..Len(constraints)}

\* sum of f[v] over the finite set S
RECURSIVE SumOver(_, _)
SumOver(S, f) ==
    IF S = {} THEN Zero
    ELSE LET v == CHOOSE w \in S : TRUE
         IN Add(f[v], SumOver(S \ {v}, f))

\* the value of the linear expression terms at the point x (a function on VarIds)
ValueAt(terms, x) == SumOver(DOMAIN x, [v \in DOMAIN x |-> Mul(CoefOf(terms, v), x[v])])

\* the solver holds a problem in standard form: plain expressions, every
\* constraint "<=" with a right-hand side >= 0
StandardForm ==
    /\ PlainTerms(objective.terms)
    /\ \A i \in 1..Len(constraints) :
          /\ PlainTerms(constraints[i].lhs)
          /\ constraints[i].ops = <<"<=">>
          /\ IsFinite(constraints[i].rhs)
          /\ Le(Zero, constraints[i].rhs)

\* x >= 0 satisfies every constraint a_i . x <= b_i
FeasiblePoint(x) ==
    /\ \A v \in DOMAIN x : Le(Zero, x[v])
    /\ \A i \in 1..Len(constraints) : Le(ValueAt(constraints[i].lhs, x), constraints[i].rhs)

\* largest coordinate of the grid points the optimum is compared with
GridMax == 4

GridPoints == [VarIds -> {Int2Num(g) : g \in 0..GridMax}]

\* the lines a1 * x_u + a2 * x_w = b bounding the region, for VarIds = {u, w}
BoundaryLines(u, w) ==
    {<<CoefOf(constraints[i].lhs, u), CoefOf(constraints[i].lhs, w), constraints[i].rhs>> :
        i \in 1..Len(constraints)}
    \cup {<<One, Zero, Zero>>, <<Zero, One, Zero>>}

Det(a, b, c, d) == Sub(Mul(a, d), Mul(b, c))

\* the intersection points of two boundary lines: every vertex is one
CrossPoints ==
    IF Cardinality(VarIds) = 2
    THEN LET u == CHOOSE v \in VarIds : \A w \in VarIds : v <= w
             w == CHOOSE v \in VarIds : v # u
             L == BoundaryLines(u, w)
         IN {[v \in VarIds |->
                 IF v = u
                 THEN Div(Det(l1[3], l1[2], l2[3], l2[2]), Det(l1[1], l1[2], l2[1], l2[2]))
                 ELSE Div(Det(l1[1], l1[3], l2[1], l2[3]), Det(l1[1], l1[2], l2[1], l2[2]))] :
                <<l1, l2>> \in {p \in L \X L : Det(p[1][1], p[1][2], p[2][1], p[2][2]) # Zero}}
    ELSE IF Cardinality(VarIds) = 1
    THEN LET u == CHOOSE v \in VarIds : TRUE
         IN {[v \in VarIds |-> Div(constraints[i].rhs, CoefOf(constraints[i].lhs, u))] :
                i \in {k \in 1..Len(constraints) : CoefOf(constraints[k].lhs, u) # Zero}}
    ELSE {}

\* the solution as a point, and its slack values
SolutionPoint(solution) ==
    [v \in VarIds |->
        solution.variables[CHOOSE i \in 1..Len(solution.variables) :
                               solution.variables[i].name = Name("x", v)].value]
SlackValue(solution, i) ==
    solution.variables[CHOOSE k \in 1..Len(solution.variables) :
                           solution.variables[k].name = Name("s", i)].value

Better(z, opt) == IF input.problemType = "max" THEN Gt(z, opt) ELSE Lt(z, opt)

IsOptimalSolution(solution) ==
    LET x == SolutionPoint(solution)
    IN /\ \A v \in VarIds : Le(Zero, x[v])
       /\ \A i \in 1..Len(constraints) :
             /\ Le(Zero, SlackValue(solution, i))
             /\ Add(ValueAt(constraints[i].lhs, x), SlackValue(solution, i))
                    = constraints[i].rhs
       /\ solution.optimalValue = ValueAt(objective.terms, x)
       /\ \A y \in GridPoints \cup CrossPoints :
             FeasiblePoint(y) => ~Better(ValueAt(objective.terms, y), solution.optimalValue)

\* C2: on a problem in standard form (every constraint "<=", right-hand
\* sides >= 0) whatever SimplexSolver.solve() returns is an optimal solution:
\* x and s are >= 0, a_i . x + s_i = b_i for every constraint, optimalValue
\* is c . x, and no feasible point (every vertex candidate and every grid
\* point is tried) has a better objective value.
C2_Optimal ==
    (kind = "primal" /\ Returned /\ StandardForm) =>
        IsOptimalSolution(results[Len(results)].solution)

C2_Witness ==
    /\ kind = "primal" /\ Returned /\ StandardForm
    /\ input \in StandardInputs
    /\ input.problemType = "min"
    /\ Len(results[1].steps) >= 3
    /\ \E v \in VarIds : Gt(SolutionPoint(results[1].solution)[v], Zero)

\* no constraint row of M has a strictly positive entry in column col
NoPositiveEntry(M, col) == \A i \in 1..(Len(M) - 1) : ~Gt(M[i][col], Zero)

\* the loop is about to pivot and the entering column has no positive entry
NoLeavingRow ==
    /\ pc = "solving"
    /\ CanImprove(Live, NumCols)
    /\ NoPositiveEntry(Live, FindPivotColumn(Live, NumCols))

UnboundedStep ==
    NoLeavingRow =>
        /\ error' = ErrUnbounded
        /\ pc' = "idle"
        /\ results' = results
        /\ steps' = steps

\* C3, as amended: with either solver, whenever the chosen entering column
\* has no strictly positive entry in any constraint row, solve() throws
\* "No finite solution" and returns nothing (no solution, no steps); and
\* SimplexSolver on maximize x1 subject to x1 - x2 <= 1 ends every solve()
\* call that way.
C3_Unbounded ==
    /\ [][UnboundedStep]_vars
    /\ []((input = UnboundedExample /\ kind = "primal") =>
            /\ results = <<>>
            /\ pc # "failed"
            /\ (pc = "idle" /\ calls >= 1) => error = ErrUnbounded)

C3_Witness ==
    /\ input = UnboundedExample /\ kind = "primal"
    /\ pc = "idle" /\ calls >= 1 /\ error = ErrUnbounded

\* C3 as claimed, on the instance it names and for both solvers: no solve()
\* call on maximize x1 subject to x1 - x2 <= 1 returns a result.
C3_Original == input = UnboundedExample => results = <<>>

\* the objective -c: every term with its sign flipped
NegateTerms(terms) ==
    [k \in 1..Len(terms) |-> [terms[k] EXCEPT !.sign = IF @ = "-" THEN "" ELSE "-"]]

OtherType(t) == IF t = "max" THEN "min" ELSE "max"

\* the <<row, col>> of the pivots a steps sequence records
PivotsOf(ss) ==
    [k \in 1..(Len(ss) - 1) |-> <<ss[k + 1].pivotInfo.row, ss[k + 1].pivotInfo.col>>]

\* C4: when SimplexSolver returns on (c, constraints, t), SimplexSolver on
\* (-c, constraints, the other problem type) returns too, after the same
\* pivots (same row and column at each step), and the two optimal values
\* are each other's negation: min c.x = -(max (-c).x).
C4_MinMaxSymmetry ==
    (kind = "primal" /\ Returned /\ calls = 1) =>
        LET mirror == PrimalSolve(Expr(NegateTerms(objective.terms), 0), constraints,
                                  OtherType(input.problemType))
        IN /\ mirror.status = "optimal"
           /\ mirror.pivots = PivotsOf(results[1].steps)
           /\ results[1].solution.optimalValue = Neg(mirror.solution.optimalValue)

C4_Witness ==
    /\ kind = "primal" /\ Returned /\ calls = 1
    /\ input.problemType = "min"
    /\ \A i \in 1..Len(constraints) : constraints[i].ops = <<"<=">>
    /\ Len(results[1].steps) >= 3
    /\ results[1].solution.optimalValue # Zero

\* the number of constraint rows of the tableau
NumConstraintRows == IF kind = "primal" THEN Len(constraints) ELSE Len(variables)

\* C5: in every solve() call, of either solver, steps holds 1 + (number of
\* pivots performed) entries; steps[0] has no pivotInfo and its table is the
\* tableau the call started from; every later step has a pivotInfo whose row
\* is a constraint row and whose col is a decision or auxiliary column; and
\* the steps a call returns are these.
C5_StepCount ==
    /\ calls >= 1 =>
          /\ Len(steps) = 1 + pivots
          /\ DOMAIN steps[1] = {"table"}
          /\ Deref(steps[1].table, heap) = entry
          /\ \A k \in 2..Len(steps) :
                /\ DOMAIN steps[k] = {"table", "pivotInfo"}
                /\ steps[k].pivotInfo.row \in 1..NumConstraintRows
                /\ steps[k].pivotInfo.col \in 1..NumCols
    /\ Returned => results[Len(results)].steps = steps

C5_Witness == Returned /\ pivots = 2 /\ Len(results[Len(results)].steps) = 3

\* C6: in the table recorded after a pivot, the pivot column holds 1 in the
\* pivot row and 0 in every other row, the objective row included.
C6_PivotColumn ==
    \A k \in 2..Len(steps) :
        LET T == Deref(steps[k].table, heap)
        IN \A i \in 1..Len(T) :
               T[i][steps[k].pivotInfo.col] =
                   IF i = steps[k].pivotInfo.row THEN One ELSE Zero

C6_Witness ==
    /\ Len(steps) >= 3
    /\ \E i \in 1..Len(entry) : ~(entry[i][steps[3].pivotInfo.col] \in {Zero, One})

\* a step once recorded stays in place, as long as the call lasts, and the
\* entries of its table never change
StepsKept ==
    /\ \A k \in 1..Len(steps) :
          /\ calls' = calls => (Len(steps') >= k /\ steps'[k] = steps[k])
          /\ Deref(steps[k].table, heap') = Deref(steps[k].table, heap)
    /\ \A r \in 1..Len(results) :
          /\ results'[r] = results[r]
          /\ \A k \in 1..Len(results[r].steps) :
                Deref(results[r].steps[k].table, heap') =
                    Deref(results[r].steps[k].table, heap)

\* C7: steps is append-only within a solve() call and every table is a deep
\* copy: no later pivot of the live matrix and no later append changes an
\* entry of a table already recorded.
C7_AppendOnly == [][StepsKept]_vars

C7_Witness ==
    /\ Len(steps) >= 3
    /\ Deref(steps[1].table, heap) = entry
    /\ Deref(steps[2].table, heap) # Live
    /\ Live # entry

\* the tableau the constructor built from the problem
InitialTableau == BuildMatrix(kind, objective, constraints, variables, input.problemType)

\* C5, with the initial tableau read as the tableau of the problem: violated
\* by the second solve() call on one instance, which starts from the tableau
\* the first call left (C8).
C5_Original ==
    Returned =>
        LET r == results[Len(results)]
        IN /\ Len(r.steps) = 1 + pivots
           /\ DOMAIN r.steps[1] = {"table"}
           /\ Deref(r.steps[1].table, heap) = InitialTableau
           /\ \A k \in 2..Len(r.steps) :
                 /\ DOMAIN r.steps[k] = {"table", "pivotInfo"}
                 /\ r.steps[k].pivotInfo.row \in 1..NumConstraintRows
                 /\ r.steps[k].pivotInfo.col \in 1..NumCols

\* a result with every table replaced by its entries
ResultContent(r) ==
    [solution |-> r.solution,
     steps |-> [k \in 1..Len(r.steps) |->
                   [r.steps[k] EXCEPT !.table = Deref(@, heap)]]]

\* C8: two solve() calls in a row on one instance return the same result, the
\* same steps starting from the initial tableau and the same solution.
C8_Original ==
    Len(results) >= 2 =>
        /\ ResultContent(results[2]) = ResultContent(results[1])
        /\ Deref(results[2].steps[1].table, heap) = InitialTableau

\* the non-blank strings of a constraint list, read off the strings
NonBlank(cs) == SelectSeq(cs, LAMBDA c : ~(c.lhs = <<>> /\ c.ops = <<>>))

\* two constraints with one relational operator each and the same left side,
\* an upper bound u and a lower bound l, both numeric, with u < l
DirectContradiction(cs) ==
    \E i \in 1..Len(cs) : \E j \in 1..Len(cs) :
        /\ cs[i].ops = <<"<=">>
        /\ cs[j].ops = <<">=">>
        /\ cs[i].lhs = cs[j].lhs
        /\ ~IsNaN(cs[i].rhs) /\ ~IsNaN(cs[j].rhs)
        /\ Lt(cs[i].rhs, cs[j].rhs)

C10_EmptyInput ==
    pc # "new" =>
        LET nb == NonBlank(input.constraints)
            empty == nb = <<>> \/ input.objective.terms = <<>>
        IN /\ (pc = "failed" /\ error \in {ErrNoConstraint, ErrNoObjective}) <=> empty
           /\ empty => (matrix = <<>> /\ heap = <<>> /\ calls = 0)
           /\ error = ErrNoConstraint <=> nb = <<>>
           /\ constraints = [i \in 1..Len(nb) |-> [nb[i] EXCEPT !.ws = 0]]
           /\ pc \in {"idle", "solving"} =>
                 /\ Len(matrix) = (IF kind = "primal" THEN Len(nb) ELSE Len(variables)) + 1
                 /\ \A i \in 1..Len(matrix) :
                       Len(Live[i]) = Len(variables) + Len(nb) + 2

C10_Witness ==
    /\ pc = "failed"
    /\ error = ErrNoConstraint
    /\ \E i \in 1..Len(input.constraints) : input.constraints[i].ws > 0
    /\ input.objective.terms # <<>>

\* a constraint with no or several relational operators, or a right-hand side
\* that is not a number
Malformed(c) == Len(c.ops) # 1 \/ IsNaN(c.rhs)

\* the terms that name a variable x<k>
Recognized(terms) == SelectSeq(terms, LAMBDA t : t.var # 0)

HasNaNEntry == \E a \in 1..Len(heap) : \E j \in 1..Len(heap[a]) : IsNaN(heap[a][j])

\* C12: DualSimplexSolver fails to construct, with a MalformedConstraint
\* error, on every non-empty input with a constraint that has no or several
\* relational operators or a right-hand side that is not a number, and no
\* tableau with a NaN entry is ever built.
C12_Original ==
    (kind = "dual" /\ pc # "new") =>
        LET nb == NonBlank(input.constraints)
        IN /\ (/\ nb # <<>>
               /\ input.objective.terms # <<>>
               /\ \E i \in 1..Len(nb) : Malformed(nb[i]))
              => (pc = "failed" /\ error \in {ErrFormat, ErrRhs})
           /\ ~HasNaNEntry

\* C13: every Solution solve() returns, from either solver and for any
\* input, has feasible = true.
C13_AlwaysFeasible ==
    \A r \in 1..Len(results) : results[r].solution.feasible = TRUE

\* a result is returned, reported feasible, whose point violates a ">="
\* constraint of the problem
C13_Witness ==
    /\ kind = "primal"
    /\ Returned
    /\ PlainTerms(objective.terms)
    /\ \A i \in 1..Len(constraints) : PlainTerms(constraints[i].lhs)
    /\ results[Len(results)].solution.feasible = TRUE
    /\ \E i \in 1..Len(constraints) :
          /\ constraints[i].ops = <<">=">>
          /\ Lt(ValueAt(constraints[i].lhs, SolutionPoint(results[Len(results)].solution)),
                constraints[i].rhs)

\* the suffixes k of the identifiers xk written in the input
InputVarIds ==
    ({input.objective.terms[k].var : k \in 1..Len(input.objective.terms)}
     \cup UNION {{input.constraints[i].lhs[k].var : k \in 1..Len(input.constraints[i].lhs)} :
                    i \in 1..Len(input.constraints)}) \ {0}

\* the builder ran (to its end or to a malformed constraint)
Parsed ==
    /\ pc # "new"
    /\ error \notin {ErrNoConstraint, ErrNoObjective, ErrInfeasible}

\* C14: in both solvers the decision-variable order is the set of the
\* identifiers x<k> of the objective and of all constraints, each once,
\* ascending by k; an identifier that only a constraint names is included:
\* objective 'x2' with constraint 'x1 + x2 <= 5' yields [x1, x2].
C14_VariableOrder ==
    Parsed =>
        /\ {variables[j] : j \in 1..Len(variables)} = InputVarIds
        /\ \A i, j \in 1..Len(variables) : i < j => variables[i] < variables[j]
        /\ input = OrderExample => variables = <<1, 2>>

C14_Witness ==
    /\ input = OrderExample
    /\ kind = "dual"
    /\ pc = "idle"
    /\ variables = <<1, 2>>

\* C15: for expressions whose terms are [sign][number]x<k>, each variable
\* named once, the coefficient either builder stores for a variable is the
\* term's signed number (no sign: +, no number: magnitude 1) and 0 for a
\* variable the expression does not name. SimplexSolver stores the
\* coefficients of constraint i in row i and those of the objective, times -1
\* when maximizing, in the last row; DualSimplexSolver stores those of
\* constraint i in column i and those of the objective in the RHS column.
\* For '-2.5x1 + x3' the coefficients of x1, x2, x3 are -2.5, 0 and 1.
C15_Coefficients ==
    (/\ pc = "idle" /\ calls = 0
     /\ PlainTerms(objective.terms)
     /\ \A i \in 1..Len(constraints) : PlainTerms(constraints[i].lhs)) =>
        LET m == Len(constraints)
            n == Len(variables)
            sign == IF input.problemType = "max" THEN Neg(One) ELSE One
        IN /\ \A i \in 1..m : \A j \in 1..n :
                 (IF kind = "primal" THEN Live[i][j] ELSE Live[j][i])
                     = CoefOf(constraints[i].lhs, variables[j])
           /\ \A j \in 1..n :
                 (IF kind = "primal" THEN Mul(sign, Live[m + 1][j]) ELSE Live[j][m + n + 2])
                     = CoefOf(objective.terms, variables[j])
           /\ input = CoefficientExample =>
                 [j \in 1..n |-> CoefOf(objective.terms, variables[j])]
                     = <<Neg(Norm(5, 2)), Zero, One>>

C15_Witness ==
    /\ input = CoefficientExample
    /\ kind = "primal"
    /\ pc = "idle" /\ calls = 0
    /\ variables = <<1, 2, 3>>
    /\ Live[3][1] = Neg(Norm(5, 2)) /\ Live[3][2] = Zero /\ Live[3][3] = One

\* the tableau pivot number k - 1 of the current call was chosen on and made
\* on: the table recorded just before it
Before(k) == Deref(steps[k - 1].table, heap)

\* C16: at every pivot, of either solver, the entering column is a decision
\* or auxiliary column whose objective-row entry is negative and the least
\* of those columns' entries, and it is the lowest-numbered such column.
C16_EnteringColumn ==
    \A k \in 2..Len(steps) :
        LET obj == LastRow(Before(k))
            c == steps[k].pivotInfo.col
        IN /\ c \in 1..NumCols
           /\ Lt(obj[c], Zero)
           /\ \A j \in 1..NumCols : ~Lt(obj[j], obj[c])
           /\ \A j \in 1..(c - 1) : obj[j] # obj[c]

\* a tie between two columns, broken for the lower one, and a pivot whose
\* entering column is not the first negative one
C16_Witness ==
    /\ \E k \in 2..Len(steps) :
          \E j \in (steps[k].pivotInfo.col + 1)..NumCols :
              LastRow(Before(k))[j] = LastRow(Before(k))[steps[k].pivotInfo.col]
    /\ \E k \in 2..Len(steps) :
          \E j \in 1..(steps[k].pivotInfo.col - 1) : Lt(LastRow(Before(k))[j], Zero)


\* in tableau T, with entering column c, the ratio RHS / entry of row i is
\* less than that of row r (both entries > 0): compared by cross-multiplying
RatioLess(T, c, i, r) ==
    Lt(Mul(T[i][Len(T[i])], T[r][c]), Mul(T[r][Len(T[r])], T[i][c]))
RatioEqual(T, c, i, r) ==
    Mul(T[i][Len(T[i])], T[r][c]) = Mul(T[r][Len(T[r])], T[i][c])

\* C17: at every pivot, of either solver, the leaving row is a constraint row
\* (never the objective row) whose entry in the entering column is > 0, no
\* constraint row with an entry > 0 has a smaller ratio RHS / entry, and no
\* earlier such row has the same ratio.
C17_LeavingRow ==
    \A k \in 2..Len(steps) :
        LET T == Before(k)
            c == steps[k].pivotInfo.col
            r == steps[k].pivotInfo.row
            positive == {i \in 1..(Len(T) - 1) : Gt(T[i][c], Zero)}
        IN /\ r \in 1..(Len(T) - 1)
           /\ r \in positive
           /\ \A i \in positive : ~RatioLess(T, c, i, r)
           /\ \A i \in positive : i < r => ~RatioEqual(T, c, i, r)

\* a tie broken for the lower row, and a pivot whose leaving row is not the
\* first row with a positive entry
C17_Witness ==
    /\ \E k \in 2..Len(steps) :
          \E i \in (steps[k].pivotInfo.row + 1)..(Len(Before(k)) - 1) :
              /\ Gt(Before(k)[i][steps[k].pivotInfo.col], Zero)
              /\ RatioEqual(Before(k), steps[k].pivotInfo.col, i, steps[k].pivotInfo.row)
    /\ \E k \in 2..Len(steps) :
          \E i \in 1..(steps[k].pivotInfo.row - 1) :
              Gt(Before(k)[i][steps[k].pivotInfo.col], Zero)

\* tableau T is Improvable: its objective row has a negative entry in a
\* decision or auxiliary column
Improvable(T) ==
    {j \in 1..(Len(LastRow(T)) - 2) : Lt(LastRow(T)[j], Zero)} # {}

\* in every returned result the last table is Optimal and every earlier
\* table is Improvable
StepsImprovableThenOptimal ==
    \A r \in 1..Len(results) :
        LET ss == results[r].steps
        IN /\ ~Improvable(Deref(ss[Len(ss)].table, heap))
           /\ \A k \in 1..(Len(ss) - 1) : Improvable(Deref(ss[k].table, heap))

\* a pivot is made only on an Improvable tableau and a result is returned
\* only on an Optimal one; on an Improvable tableau solve() goes on with a
\* pivot, unless no row can leave and it throws
PivotOnlyIfImprovable ==
    /\ (pc = "solving" /\ Improvable(Live)) =>
          (pivots' = pivots + 1 \/ (error' = ErrUnbounded /\ results' = results))
    /\ (pc = "solving" /\ ~Improvable(Live)) => Len(results') = Len(results) + 1
    /\ pivots' = pivots + 1 => Improvable(Live)
    /\ (calls' = calls /\ Len(steps') = Len(steps) + 1) => Improvable(Live)
    /\ Len(results') = Len(results) + 1 => (~Improvable(Live) /\ Live' = Live)

\* C18: solve(), of either solver, pivots again only while some
\* objective-row entry in a decision or auxiliary column is negative and
\* returns only when none is: in every returned result the last step's table
\* has no such entry and every earlier step's table has one.
C18_ImprovableOptimal == [][PivotOnlyIfImprovable]_vars /\ []StepsImprovableThenOptimal

C18_Witness ==
    /\ Returned
    /\ Len(results[Len(results)].steps) = 3
    /\ ~Improvable(Live)
    /\ Improvable(entry)

\* T has m + 1 rows of n + m + 2 entries; its Z column, the last but one,
\* holds 0 in the m constraint rows and 1 in the last row
PrimalShape(T, n, m) ==
    /\ Len(T) = m + 1
    /\ \A i \in 1..Len(T) : Len(T[i]) = n + m + 2
    /\ \A i \in 1..m : T[i][n + m + 1] = Zero
    /\ T[m + 1][n + m + 1] = One

\* U is T after the row operations of a pivot on (r, c), row by row and
\* column by column in place
SamePlaces(T, U, r, c) ==
    /\ DOMAIN U = DOMAIN T
    /\ \A i \in DOMAIN T : DOMAIN U[i] = DOMAIN T[i]
    /\ \A j \in DOMAIN T[r] : Mul(U[r][j], T[r][c]) = T[r][j]
    /\ \A i \in DOMAIN T \ {r} : \A j \in DOMAIN T[i] :
          Add(U[i][j], Mul(T[i][c], U[r][j])) = T[i][j]

\* C19: every tableau SimplexSolver records, the first one and the one
\* after each pivot, and the live matrix, has m + 1 rows and n + m + 2 columns,
\* the objective row (the one with 1 in the Z column) last; the table after a
\* pivot is the table before it with every row and column in its place, only
\* the entries changed.
C19_Shape ==
    (kind = "primal" /\ pc \in {"idle", "solving"}) =>
        LET n == Len(variables)
            m == Len(constraints)
        IN /\ PrimalShape(Live, n, m)
           /\ \A k \in 1..Len(steps) : PrimalShape(Deref(steps[k].table, heap), n, m)
           /\ \A r \in 1..Len(results) : \A k \in 1..Len(results[r].steps) :
                 PrimalShape(Deref(results[r].steps[k].table, heap), n, m)
           /\ \A k \in 2..Len(steps) :
                 SamePlaces(Before(k), Deref(steps[k].table, heap),
                            steps[k].pivotInfo.row, steps[k].pivotInfo.col)

C19_Witness ==
    /\ kind = "primal"
    /\ Len(steps) = 3
    /\ Len(variables) = 2 /\ Len(constraints) = 3
    /\ steps[3].pivotInfo.row # 1
    /\ PrimalShape(Deref(steps[3].table, heap), 2, 3)

\* the reference construction of the initial primal tableau, entry by entry
ReferenceTableau ==
    LET n == Len(variables)
        m == Len(constraints)
    IN [i \in 1..(m + 1) |->
          [j \in 1..(n + m + 2) |->
              IF i <= m
              THEN (IF j <= n THEN CoefOf(constraints[i].lhs, variables[j])
                    ELSE IF j = n + i
                         THEN (IF constraints[i].ops = <<"<=">> THEN One
                               ELSE IF constraints[i].ops = <<">=">> THEN Neg(One)
                               ELSE Zero)
                    ELSE IF j = n + m + 2 THEN constraints[i].rhs
                    ELSE Zero)
              ELSE (IF j <= n
                    THEN (IF input.problemType = "max"
                          THEN Neg(CoefOf(objective.terms, variables[j]))
                          ELSE CoefOf(objective.terms, variables[j]))
                    ELSE IF j = n + m + 1 THEN One
                    ELSE Zero)]]

\* C20: for expressions naming each variable at most once, the tableau the
\* SimplexSolver constructor builds, which the first solve() records as
\* steps[0], is the reference construction: constraint row i holds a_ij in
\* column j, +1 / -1 / 0 in its own slack column n + i for <= / >= / =, 0 in the
\* other slack columns and the Z column, b_i in the RHS column; the objective
\* row holds -c_j (max) or c_j (min), 0 in the slack columns, 1 in the Z
\* column, 0 in the RHS column.
C20_InitialTableau ==
    (/\ kind = "primal"
     /\ pc \in {"idle", "solving"}
     /\ PlainTerms(objective.terms)
     /\ \A i \in 1..Len(constraints) : PlainTerms(constraints[i].lhs)) =>
        /\ calls = 0 => Live = ReferenceTableau
        /\ calls = 1 => Deref(steps[1].table, heap) = ReferenceTableau
        /\ Len(results) >= 1 =>
              Deref(results[1].steps[1].table, heap) = ReferenceTableau

C20_Witness ==
    /\ input = CoefficientExample
    /\ kind = "primal"
    /\ calls = 1
    /\ Deref(steps[1].table, heap)[2][5] = Neg(One)
    /\ Deref(steps[1].table, heap)[1][4] = One
    /\ Deref(steps[1].table, heap)[3][1] = Neg(Norm(5, 2))

\* the reference construction of the initial dual tableau, entry by entry
DualReferenceTableau ==
    LET n == Len(variables)
        m == Len(constraints)
    IN [j \in 1..(n + 1) |->
          [col \in 1..(m + n + 2) |->
              IF j <= n
              THEN (IF col <= m THEN CoefOf(constraints[col].lhs, variables[j])
                    ELSE IF col = m + j THEN One
                    ELSE IF col = m + n + 2 THEN CoefOf(objective.terms, variables[j])
                    ELSE Zero)
              ELSE (IF col <= m THEN Sub(Zero, constraints[col].rhs)
                    ELSE IF col = m + n + 1 THEN One
                    ELSE Zero)]]

\* C21: for expressions naming each variable at most once, the tableau the
\* DualSimplexSolver constructor builds, which the first solve() records as
\* steps[0], has n + 1 rows and m + n + 2 columns: row j holds a_ij in column
\* i, +1 in slack column m + j, 0 in the other slack columns and the p column,
\* c_j in the RHS column; the objective row holds -b_i in column i, 0 in the
\* slack columns, 1 in the p column, 0 in the RHS column.
C21_DualTableau ==
    (/\ kind = "dual"
     /\ pc \in {"idle", "solving"}
     /\ PlainTerms(objective.terms)
     /\ \A i \in 1..Len(constraints) : PlainTerms(constraints[i].lhs)) =>
        /\ calls = 0 => Live = DualReferenceTableau
        /\ calls = 1 =>
              /\ Len(steps[1].table) = Len(variables) + 1
              /\ \A j \in 1..Len(steps[1].table) :
                    Len(Deref(steps[1].table, heap)[j])
                        = Len(constraints) + Len(variables) + 2
              /\ Deref(steps[1].table, heap) = DualReferenceTableau
        /\ Len(results) >= 1 =>
              Deref(results[1].steps[1].table, heap) = DualReferenceTableau

C21_Witness ==
    /\ input = Textbook
    /\ kind = "dual"
    /\ calls = 1
    /\ Deref(steps[1].table, heap) =
          << <<One, Zero, Int2Num(3), One, Zero, Zero, Int2Num(3)>>,
             <<Zero, Int2Num(2), Int2Num(2), Zero, One, Zero, Int2Num(5)>>,
             <<Int2Num(-4), Int2Num(-12), Int2Num(-18), Zero, Zero, One, Zero>> >>

\* the RHS entry of the objective row of the last table of result r
TerminalObjectiveRhs(r) ==
    LET ss == results[r].steps
        T == Deref(ss[Len(ss)].table, heap)
    IN T[Len(T)][Len(T[Len(T)])]

\* C22: SimplexSolver's optimalValue is the RHS entry of the terminal
\* tableau's objective row for 'max' and its negation for 'min';
\* DualSimplexSolver's is that entry, not negated, for either problemType.
C22_OptimalValue ==
    \A r \in 1..Len(results) :
        results[r].solution.optimalValue =
            IF kind = "primal" /\ input.problemType = "min"
            THEN Sub(Zero, TerminalObjectiveRhs(r))
            ELSE TerminalObjectiveRhs(r)

C22_Witness ==
    /\ kind = "dual"
    /\ input.problemType = "min"
    /\ Returned
    /\ Len(results[1].steps) >= 2
    /\ results[1].solution.optimalValue = TerminalObjectiveRhs(1)
    /\ Lt(Zero, TerminalObjectiveRhs(1))

\* the steps of a result as values: each table's entries and its pivot
StepValues(ss) ==
    [k \in 1..Len(ss) |->
        [table |-> Deref(ss[k].table, heap),
         pivot |-> IF k = 1 THEN <<>>
                   ELSE <<ss[k].pivotInfo.row, ss[k].pivotInfo.col>>]]

\* the constraints with the relational operator of constraint i replaced by ops[i]
WithOperators(cs, ops) == [i \in 1..Len(cs) |-> [cs[i] EXCEPT !.ops = <<ops[i]>>]]

\* C23: what DualSimplexSolver returns depends on the coefficients only: a
\* run on the same strings with another problemType, or with any other
\* relational operators in the constraints, returns the same steps (tables
\* and pivots) and the same solution.
C23_DualIgnoresTypeAndOperators ==
    (kind = "dual" /\ Returned /\ calls = 1) =>
        LET returned == [status |-> "optimal",
                         steps |-> StepValues(results[1].steps),
                         solution |-> results[1].solution]
        IN /\ DualSolve(objective, constraints, OtherType(input.problemType)) = returned
           /\ \A ops \in [1..Len(constraints) -> Operators] :
                 DualSolve(objective, WithOperators(constraints, ops), input.problemType)
                     = returned

C23_Witness ==
    /\ kind = "dual"
    /\ Returned /\ calls = 1
    /\ input.problemType = "min"
    /\ Len(results[1].steps) >= 2
    /\ \E i \in 1..Len(constraints) : constraints[i].ops = <<">=">>
    /\ \E i \in 1..Len(constraints) : constraints[i].ops = <<"=">>

\* the columns of T, among the n decision and m slack columns, with 1 in
\* constraint row i and 0 in every other constraint row
Candidates(T, i, n, m) ==
    {j \in 1..(n + m) : T[i][j] = One /\ \A k \in 1..m : k # i => T[k][j] = Zero}

\* the least element of a non-empty set of column numbers
MinOf(S) == CHOOSE j \in S : \A k \in S : j <= k

\* the column the claim's rule chooses for row i, 0 when there is no candidate
ChosenColumn(T, i, n, m) ==
    LET cand == Candidates(T, i, n, m)
        zeroDecision == {j \in cand : j <= n /\ T[m + 1][j] = Zero}
        smallest == {j \in cand :
                        \A k \in cand : Le(AbsNum(T[m + 1][j]), AbsNum(T[m + 1][k]))}
    IN IF zeroDecision # {} THEN MinOf(zeroDecision)
       ELSE IF cand # {} THEN MinOf(smallest)
       ELSE 0

\* C24: SimplexSolver's solution lists the n decision variables in column
\* order, then s1..sm, each once; the variable of column j has the RHS of the
\* constraint row whose chosen column is j, and 0 if no row chooses j. The
\* column chosen for a row is, among the decision and slack columns with 1 in
\* that row and 0 in the other constraint rows, the first decision column
\* whose objective-row entry is 0 if there is one, otherwise the first column
\* of least absolute objective-row entry.
C24_PrimalExtraction ==
    (kind = "primal" /\ Returned) =>
        LET n == Len(variables)
            m == Len(constraints)
            sol == results[Len(results)].solution.variables
        IN /\ Len(sol) = n + m
           /\ \A j \in 1..(n + m) :
                 /\ sol[j].name = IF j <= n THEN Name("x", variables[j])
                                  ELSE Name("s", j - n)
                 /\ sol[j].value =
                       IF \E i \in 1..m : ChosenColumn(Live, i, n, m) = j
                       THEN Live[CHOOSE i \in 1..m : ChosenColumn(Live, i, n, m) = j][n + m + 2]
                       ELSE Zero

\* a row with several candidates whose chosen column is not the first, and a
\* row whose chosen column is a decision column with objective-row entry 0
\* although a slack column is a candidate too
C24_Witness ==
    /\ kind = "primal" /\ Returned
    /\ LET n == Len(variables)
           m == Len(constraints)
       IN /\ \E i \in 1..m :
                ChosenColumn(Live, i, n, m) > MinOf(Candidates(Live, i, n, m) \cup {n + m})
          /\ \E i \in 1..m :
                /\ ChosenColumn(Live, i, n, m) \in 1..n
                /\ \E j \in Candidates(Live, i, n, m) : j > n

\* the rows of T, among the n constraint rows, in which dual column i is a
\* unit column: 1 there and 0 in every other constraint row
UnitRows(T, i, n) ==
    {j \in 1..n : T[j][i] = One /\ \A k \in 1..n : k # j => T[k][i] = Zero}

\* C25 as stated: DualSimplexSolver's solution lists y1..ym then s1..sn, each
\* once; s_j has the objective-row entry of slack column m + j; y_i has the
\* RHS of the constraint row in which column i is a unit column, and 0 if
\* there is no such row.
C25_Original ==
    (kind = "dual" /\ Returned) =>
        LET n == Len(variables)
            m == Len(constraints)
            sol == results[Len(results)].solution.variables
        IN /\ Len(sol) = m + n
           /\ \A i \in 1..m :
                 /\ sol[i].name = Name("y", i)
                 /\ sol[i].value =
                       IF UnitRows(Live, i, n) # {}
                       THEN Live[CHOOSE j \in UnitRows(Live, i, n) : TRUE][m + n + 2]
                       ELSE Zero
           /\ \A j \in 1..n :
                 /\ sol[m + j].name = Name("s", j)
                 /\ sol[m + j].value = Live[n + 1][m + j]

\* the dual columns that are unit columns in constraint row j of T
UnitColumns(T, j, m, n) == {i \in 1..m : j \in UnitRows(T, i, n)}

\* C25, amended: DualSimplexSolver's solution lists y1..ym then s1..sn, each
\* once; s_j has the objective-row entry of slack column m + j; each
\* constraint row gives its RHS to the first dual column that is a unit
\* column in it, and every other y_i is 0, also one whose column is a unit
\* column of a row that an earlier column already took.
C25_DualExtraction ==
    (kind = "dual" /\ Returned) =>
        LET n == Len(variables)
            m == Len(constraints)
            sol == results[Len(results)].solution.variables
            taken == {<<j, MinOf(UnitColumns(Live, j, m, n))>> :
                         j \in {k \in 1..n : UnitColumns(Live, k, m, n) # {}}}
        IN /\ Len(sol) = m + n
           /\ \A i \in 1..m :
                 /\ sol[i].name = Name("y", i)
                 /\ sol[i].value =
                       IF \E p \in taken : p[2] = i
                       THEN Live[(CHOOSE p \in taken : p[2] = i)[1]][m + n + 2]
                       ELSE Zero
           /\ \A j \in 1..n :
                 /\ sol[m + j].name = Name("s", j)
                 /\ sol[m + j].value = Live[n + 1][m + j]

\* a returned dual run, after a pivot, in which a row has two unit columns
C25_Witness ==
    /\ kind = "dual" /\ Returned
    /\ pivots >= 1
    /\ \E j \in 1..Len(variables) :
          Cardinality(UnitColumns(Live, j, Len(constraints), Len(variables))) >= 2

\* the steps before step k of this run that pivoted on row r
EarlierOnRow(k, r) == {j \in 2..(k - 1) : steps[j].pivotInfo.row = r}

\* the variable that is basic in row r just before the pivot of step k, in a
\* first run from the all-slack basis: what entered at the latest earlier
\* pivot on that row, the row's slack when there was none
BasicBefore(k, r) ==
    IF EarlierOnRow(k, r) = {} THEN Name("s", r)
    ELSE steps[CHOOSE j \in EarlierOnRow(k, r) :
                   \A i \in EarlierOnRow(k, r) : i <= j].pivotInfo.entering

\* C26: at every pivot recorded by SimplexSolver in the first run on a
\* standard-form problem, entering names the variable of the pivot column and
\* leaving names the variable that was basic in the pivot row just before the
\* pivot, also when the row is a pivot row for the second time.
C26_Original ==
    (kind = "primal" /\ calls = 1 /\ StandardForm) =>
        \A k \in 2..Len(steps) :
            LET info == steps[k].pivotInfo
                n == Len(variables)
            IN /\ info.entering =
                     (IF info.col <= n THEN Name("x", variables[info.col])
                      ELSE Name("s", info.col - n))
               /\ info.leaving = BasicBefore(k, info.row)

\* C27: on maximize c.x subject to Ax <= b with b >= 0, c >= 0 and a finite
\* optimum (SimplexSolver ends at Optimal), the optimalValue
\* DualSimplexSolver.solve() returns equals the optimalValue
\* SimplexSolver.solve() returns on the same three arguments.
C27_Original ==
    (/\ kind = "dual" /\ Returned /\ calls = 1
     /\ StandardForm
     /\ input.problemType = "max"
     /\ \A k \in 1..Len(objective.terms) : Le(Zero, TermValue(objective.terms[k]))
     /\ PrimalSolve(objective, constraints, "max").status = "optimal") =>
        results[1].solution.optimalValue =
            PrimalSolve(objective, constraints, "max").solution.optimalValue

\* every term of the objective and of every left-hand side is [sign][number]x<k>
TermsNamed ==
    /\ \A k \in 1..Len(objective.terms) : objective.terms[k].var # 0
    /\ \A i \in 1..Len(constraints) :
          \A k \in 1..Len(constraints[i].lhs) : constraints[i].lhs[k].var # 0

\* C28: on strings made of terms [sign][number]x<k>, a variable possibly
\* named by several terms, which both constructors accept, the tableau
\* DualSimplexSolver builds holds in row j, column i the entry a_ij that
\* SimplexSolver's tableau holds in row i, column j, and in row j's RHS the
\* objective coefficient c_j that SimplexSolver's objective row holds
\* (negated there when maximizing).
C28_Original ==
    (/\ kind = "dual" /\ pc = "idle" /\ calls = 0
     /\ TermsNamed
     /\ PrimalConstructorError(objective, constraints) = NoError) =>
        LET n == Len(variables)
            m == Len(constraints)
            P == InitializeMatrix(objective, constraints, variables, input.problemType)
        IN \A j \in 1..n :
              /\ \A i \in 1..m : Live[j][i] = P[i][j]
              /\ Live[j][m + n + 2] =
                    (IF input.problemType = "max" THEN Neg(P[m + 1][j]) ELSE P[m + 1][j])

\* every constraint is "<=" with a right-hand side >= 0
AllLeNonNegative ==
    \A i \in 1..Len(constraints) :
        /\ constraints[i].ops = <<"<=">>
        /\ IsFinite(constraints[i].rhs)
        /\ Le(Zero, constraints[i].rhs)

\* the tableau recorded by step k
StepTable(k) == Deref(steps[k].table, heap)

\* C29: on a problem whose constraints are all "<=" with non-negative
\* right-hand sides, every tableau SimplexSolver.solve() records has a RHS
\* >= 0 in every constraint row, every constraint row has a decision or slack
\* column that is 1 in it and 0 in the other constraint rows, and the
\* objective-row RHS does not decrease from a step to the next.
C29_FeasibleBasis ==
    (kind = "primal" /\ AllLeNonNegative) =>
        LET m == Len(constraints)
            rhs == NumCols + 2
        IN /\ \A k \in 1..Len(steps) :
                 \A i \in 1..m :
                     /\ Le(Zero, StepTable(k)[i][rhs])
                     /\ \E c \in 1..NumCols :
                           /\ StepTable(k)[i][c] = One
                           /\ \A r \in 1..m : r # i => StepTable(k)[r][c] = Zero
           /\ \A k \in 1..(Len(steps) - 1) :
                 Le(StepTable(k)[m + 1][rhs], StepTable(k + 1)[m + 1][rhs])

\* a run on such a problem with two pivots, the second on a row whose RHS
\* was changed by the first, the objective-row RHS growing at each
C29_Witness ==
    /\ kind = "primal" /\ AllLeNonNegative /\ Returned
    /\ Len(steps) >= 3
    /\ LET m == Len(constraints)
           rhs == NumCols + 2
           r == steps[3].pivotInfo.row
       IN /\ steps[2].pivotInfo.row # r
          /\ StepTable(2)[r][rhs] # StepTable(1)[r][rhs]
          /\ \A k \in 1..2 :
                Lt(StepTable(k)[m + 1][rhs], StepTable(k + 1)[m + 1][rhs])

\* the minimum ratio of the pivot recorded by step k, from the tableau
\* recorded just before it
PivotRatio(k) ==
    LET prev == StepTable(k - 1)
        info == steps[k].pivotInfo
    IN Div(prev[info.row][NumCols + 2], prev[info.row][info.col])

\* a pivot of this run was degenerate: its minimum ratio was not > 0
DegenerateSeen == \E k \in 2..Len(steps) : ~Gt(PivotRatio(k), Zero)

\* leaving the loop: by Optimal with a result appended, or by Unbounded
ExitsByOptimalOrUnbounded ==
    [][(pc = "solving" /\ pc' # "solving") =>
          \/ ~Improvable(Live) /\ error' = NoError
                               /\ Len(results') = Len(results) + 1
          \/ Improvable(Live) /\ error' = ErrUnbounded /\ results' = results]_vars

\* inside solve() a pivot appends one step, and nothing else touches steps
OneStepPerPivot ==
    [][pc = "solving" =>
          /\ pivots' = pivots + 1 =>
                Len(steps') = Len(steps) + 1 /\ SubSeq(steps', 1, Len(steps)) = steps
          /\ pivots' = pivots => steps' = steps]_vars

\* the loop is never held back by a count of its iterations: whenever the
\* row can improve and a pivot row exists, the number of pivots made so far
\* is below MaxPivots
NeverCapped ==
    [](pc = "solving" /\ Improvable(Live) => pivots < MaxPivots)

\* why a run without degenerate pivots ends: a pivot of positive minimum
\* ratio strictly increases the objective-row RHS, so no tableau comes back
StrictProgress ==
    [][pivots' = pivots + 1 =>
          LET info == steps'[Len(steps')].pivotInfo
              rhs == NumCols + 2
          IN Gt(Div(Live[info.row][rhs], Live[info.row][info.col]), Zero) =>
                Lt(Live[Len(Live)][rhs], Live'[Len(Live)][rhs])]_vars

\* C30: the loop is left only by Optimal or by Unbounded, never because of
\* the number of iterations; each pivot appends exactly one step; and on a
\* problem whose constraints are all "<=" with right-hand sides >= 0 a
\* solve() in progress eventually returns or throws Unbounded, unless one of
\* its pivots is degenerate.
C30_Termination ==
    /\ ExitsByOptimalOrUnbounded
    /\ OneStepPerPivot
    /\ NeverCapped
    /\ StrictProgress
    /\ (pc = "solving" /\ AllLeNonNegative) ~> (pc = "idle" \/ DegenerateSeen)

\* a solve() on such a problem returned after two pivots, none degenerate
C30_Witness ==
    /\ AllLeNonNegative /\ Returned
    /\ Len(steps) >= 3
    /\ ~DegenerateSeen

====
